---- MODULE Spec2Model ----
(***************************************************************************)
(* Model of the task API of the Autonomous AI Operator                     *)
(* (src/app/api/routes/tasks.py, email.py, voice.py; src/app/models).      *)
(*                                                                         *)
(* The durable state is the `tasks` table and the `task_logs` table.  The  *)
(* HTTP handlers are modelled twice: as whole-handler actions (Spec) and,  *)
(* for execute_task / replan_task, statement by statement over one         *)
(* SQLAlchemy session per request (SpecConc).                              *)
(***************************************************************************)
EXTENDS Integers, Sequences, FiniteSets, TLC

\* ------------------------------------------------------------------ bounds
MaxTasks == 2
MaxRequests == 2
NProcs == 3
MaxMail == 22
SmallMail == 3
MaxLive == 5

\* --------------------------------------------------------------- constants
HTTP_200_OK == 200
HTTP_400_BAD_REQUEST == 400
HTTP_404_NOT_FOUND == 404
HTTP_422_UNPROCESSABLE == 422
HTTP_500_INTERNAL == 500
HTTP_503_UNAVAILABLE == 503

\* msg_ids[0].split()[-20:]
PollLimit == 20

\* CreateTaskRequest.goal: Field(..., min_length=1, max_length=2000)
GoalMinLength == 1
GoalMaxLength == 2000

\* text_body[:500] in the summary email_webhook composes
SummaryBodyLimit == 500

\* class TaskState(str, enum.Enum)
TaskState ==
  { "INIT", "GATHER_INFO", "RESEARCH", "READY_TO_EXECUTE", "CALL_IN_PROGRESS",
    "AWAITING_USER_INPUT", "COMPLETED", "FAILED", "CANCELLED" }

\* Terminal / non-terminal states as the specification's glossary names them.
TerminalStates == { "COMPLETED", "FAILED", "CANCELLED" }
NonTerminalStates == TaskState \ TerminalStates

\* Python None, and the result of `.first()` on an empty result set.
None == "<None>"
NoTask == [state |-> None, user_id |-> None, goal |-> None]

\* Primary keys a task row can have (uuid4 values, named 1..MaxTasks).
TaskIds == 1 .. MaxTasks

\* Rows of the users table, and a user id that references no row.
Users == { "u1", "u2" }
UnknownUser == "u?"
SeedUser == "u1"
SeedGoal == "seed goal"

\* n copies of the string s, one after another.
RECURSIVE Repeat(_, _)
Repeat(s, n) ==
  IF n = 0 THEN ""
  ELSE IF n % 2 = 0 THEN LET half == Repeat(s, n \div 2) IN half \o half
  ELSE s \o Repeat(s, n - 1)

\* Goals a create request is sent with: the empty goal, the shortest and the
\* longest goal the schema admits, and a goal one character too long.
Goals ==
  { "", Repeat("g", GoalMinLength), Repeat("g", GoalMaxLength),
    Repeat("g", GoalMaxLength + 1) }

VARIABLES
  tasks,      \* tasks table: id -> row, NoTask where no row has that id
  task_logs,  \* task_logs table: sequence of [task_id, event_type]
  resp,       \* what the last handled request returned to its caller
  nreq,       \* number of requests handled so far
  sess,       \* per request-handling unit: its session and position (SpecConc)
  base,       \* the tasks table as it was before the first request
  input,      \* the request body a webhook is driven with (SpecEmail, SpecVoice)
  email_log,  \* the log records the last email_webhook emitted
  mailbox     \* the remote IMAP INBOX: sequence of messages

vars == <<tasks, task_logs, resp, nreq, sess, base, input, email_log, mailbox>>

\* Variant: the `if not task` test never fires.
ExistsAlways(t) == TRUE

\* `task` is truthy: the query found a row.
Exists(t) == tasks[t] # NoTask

\* ------------------------------------------------- execute / replan: rules
\* Variant: the completed check is missing.
ExecuteNeverRejects(state) == FALSE

\* `if task.state == TaskState.COMPLETED.value: raise HTTPException(400)`
ExecuteRejects(state) == state = "COMPLETED"

\* Variant: execute advances the loaded state one step along the lifecycle
\* instead of assigning CALL_IN_PROGRESS.
ExecuteAdvance(loaded) ==
  CASE loaded = "INIT" -> "GATHER_INFO"
    [] loaded = "GATHER_INFO" -> "RESEARCH"
    [] loaded = "RESEARCH" -> "READY_TO_EXECUTE"
    [] OTHER -> "CALL_IN_PROGRESS"

\* Variant: execute assigns a string that is no member of TaskState (the
\* state column is a plain String(50)).
ExecuteTypo(loaded) == "IN_PROGRESS"

\* `task.state = TaskState.CALL_IN_PROGRESS.value`, whatever state was loaded.
ExecuteNext(loaded) == "CALL_IN_PROGRESS"

\* Variant: replan leaves the loaded state as it is.
ReplanKeeps(loaded) == loaded

\* `task.state = TaskState.INIT.value`, whatever state was loaded.
ReplanNext(loaded) == "INIT"

\* db.commit(): the session flushes an UPDATE of the state column only when
\* the attribute differs from the value it loaded; otherwise the row is left
\* as it is in the table.
Flush(row, loaded, attr) ==
  IF attr # loaded THEN [row EXCEPT !.state = attr] ELSE row

\* The state of task row `row` after execute_task / replan_task ran on it
\* alone: read, check, assignment and commit with nothing in between.
transition(row, event) ==
  IF event = "execute"
    THEN IF ExecuteRejects(row.state) THEN row
         ELSE Flush(row, row.state, ExecuteNext(row.state))
    ELSE Flush(row, row.state, ReplanNext(row.state))

\* ----------------------------------------------------------- responses
Response(op, t, code, status, prev, body) ==
  [op |-> op, task |-> t, code |-> code, status |-> status, prev |-> prev,
   body |-> body]

NoBody == <<>>

\* HTTPException(status_code=404, detail=f"Task with id {task_id} not found")
NotFound(op, t) ==
  Response(op, t, HTTP_404_NOT_FOUND, "error", None, <<"Task with id ", t, " not found">>)

\* TaskActionResponse(status="success", task_id=str(task.id), message=...)
TaskAction(op, t, prev, message) ==
  Response(op, t, HTTP_200_OK, "success", prev, [task_id |-> t, message |-> message])

\* task.logs: the task_logs rows whose task_id is t, in table order.
LogsOf(t) == SelectSeq(task_logs, LAMBDA l : l.task_id = t)

\* ------------------------------------------------ whole-handler actions
\* POST /api/tasks/
create_task(user_id, goal) ==
  /\ nreq < MaxRequests
  /\ nreq' = nreq + 1
  /\ IF Len(goal) < GoalMinLength \/ Len(goal) > GoalMaxLength
       THEN \* CreateTaskRequest.goal has min_length=1 and max_length=2000:
            \* the request is refused before the handler runs
            /\ resp' = Response("create_task", 0, HTTP_422_UNPROCESSABLE, "error", None, NoBody)
            /\ UNCHANGED tasks
       ELSE IF user_id \notin Users
       THEN \* tasks.user_id is a NOT NULL foreign key to users.id: commit raises
            /\ resp' = Response("create_task", 0, HTTP_500_INTERNAL, "error", None, NoBody)
            /\ UNCHANGED tasks
       ELSE \E t \in TaskIds :
            /\ ~Exists(t)
            /\ tasks' = [tasks EXCEPT ![t] =
                 [state |-> "INIT", user_id |-> user_id, goal |-> goal]]
            /\ resp' = TaskAction("create_task", t, None, "Task created successfully")
  /\ UNCHANGED <<task_logs, sess, base, input, email_log, mailbox>>

\* GET /api/tasks/{task_id}
get_task(t) ==
  /\ nreq < MaxRequests
  /\ nreq' = nreq + 1
  /\ resp' = IF ~Exists(t) THEN NotFound("get_task", t)
             ELSE Response("get_task", t, HTTP_200_OK, "success", tasks[t].state,
                           [id |-> t, user_id |-> tasks[t].user_id,
                            goal |-> tasks[t].goal, state |-> tasks[t].state])
  /\ UNCHANGED <<tasks, task_logs, sess, base, input, email_log, mailbox>>

\* GET /api/tasks/{task_id}/logs
get_task_logs(t) ==
  /\ nreq < MaxRequests
  /\ nreq' = nreq + 1
  /\ resp' = IF ~Exists(t) THEN NotFound("get_task_logs", t)
             ELSE Response("get_task_logs", t, HTTP_200_OK, "success",
                           tasks[t].state, LogsOf(t))
  /\ UNCHANGED <<tasks, task_logs, sess, base, input, email_log, mailbox>>

\* POST /api/tasks/{task_id}/execute
execute_task(t) ==
  /\ nreq < MaxRequests
  /\ nreq' = nreq + 1
  /\ IF ~Exists(t)
       THEN /\ resp' = NotFound("execute_task", t)
            /\ UNCHANGED tasks
       ELSE IF ExecuteRejects(tasks[t].state)
       THEN /\ resp' = Response("execute_task", t, HTTP_400_BAD_REQUEST, "error",
                                tasks[t].state, <<"Task is already completed">>)
            /\ UNCHANGED tasks
       ELSE /\ tasks' = [tasks EXCEPT ![t] = transition(tasks[t], "execute")]
            /\ resp' = TaskAction("execute_task", t, tasks[t].state, "Task execution started")
  /\ UNCHANGED <<task_logs, sess, base, input, email_log, mailbox>>

\* POST /api/tasks/{task_id}/replan
replan_task(t) ==
  /\ nreq < MaxRequests
  /\ nreq' = nreq + 1
  /\ IF ~Exists(t)
       THEN /\ resp' = NotFound("replan_task", t)
            /\ UNCHANGED tasks
       ELSE /\ tasks' = [tasks EXCEPT ![t] = transition(tasks[t], "replan")]
            /\ resp' = TaskAction("replan_task", t, tasks[t].state, "Task replanning initiated")
  /\ UNCHANGED <<task_logs, sess, base, input, email_log, mailbox>>

\* Events the tasks router has a route for, and the other events the
\* specification names.  A POST /api/tasks/{task_id}/<event> for an event
\* without a route is answered by the framework: 404, no handler runs.
RoutedEvents == { "execute", "replan" }
UnroutedEvents == { "cancel", "fatal-error" }

no_route(t, event) ==
  /\ nreq < MaxRequests
  /\ nreq' = nreq + 1
  /\ resp' = Response(event, t, HTTP_404_NOT_FOUND, "error",
                      tasks[t].state, <<"Not Found">>)
  /\ UNCHANGED <<tasks, task_logs, sess, base, input, email_log, mailbox>>

\* ------------------------------------------------------- email webhook
\* Python truthiness of an Optional[str]: None and "" are falsy.
Truthy(v) == v # None /\ v # ""

\* `a or b`
Or(a, b) == IF Truthy(a) THEN a ELSE b

\* An EmailWebhookRequest with no field given: every field defaults to None.
EmptyEmail ==
  [from_ |-> None, sender |-> None, From |-> None, subject |-> None,
   Subject |-> None, text |-> None, plain |-> None, body |-> None,
   body_plain |-> None]

\* from_addr = request.from_ or request.sender or request.From or "unknown"
ResolveFrom(r) == Or(r.from_, Or(r.sender, Or(r.From, "unknown")))

\* subject = request.subject or request.Subject or "(no subject)"
ResolveSubject(r) == Or(r.subject, Or(r.Subject, "(no subject)"))

\* text_body = request.text or request.plain or request.body
\*             or request.body_plain or ""
ResolveBody(r) == Or(r.text, Or(r.plain, Or(r.body, Or(r.body_plain, ""))))

\* text_body[:limit]
Truncate(text, limit) ==
  IF Len(text) <= limit THEN text ELSE SubSeq(text, 1, limit)

\* logging.basicConfig(level=logging.INFO): a logger.debug call emits no
\* record.
LogLevel == "INFO"

\* The records email_webhook emits: logger.info with the sender, the subject
\* and the length of the body; logger.debug with the composed summary, which
\* holds the first SummaryBodyLimit characters of the body.
EmailRecords(from_addr, subject, text_body) ==
  <<[level |-> "INFO", from_addr |-> from_addr, subject |-> subject,
     body_length |-> Len(text_body)]>>
  \o (IF LogLevel = "DEBUG"
        THEN <<[level |-> "DEBUG",
                goal |-> <<"Email from ", from_addr, ": ", subject, "\n\n",
                           Truncate(text_body, SummaryBodyLimit)>>]>>
        ELSE <<>>)

\* Requests the webhook is driven with in Spec.
EmailSamples ==
  { EmptyEmail,
    [EmptyEmail EXCEPT !.text = Repeat("x", SummaryBodyLimit + 1)],
    [EmptyEmail EXCEPT !.From = "a@x.com", !.plain = "hi"],
    [EmptyEmail EXCEPT !.from_ = "", !.sender = "b@y.org", !.Subject = "Re: bill"],
    [EmptyEmail EXCEPT !.from_ = "c@z.net", !.From = "a@x.com",
                       !.subject = "invoice", !.body = "see attached"] }

\* POST /api/email/webhook: the email is written to the application log
\* and acknowledged; no table is written.
email_webhook(request) ==
  /\ nreq < MaxRequests
  /\ nreq' = nreq + 1
  /\ resp' = Response("email_webhook", 0, HTTP_200_OK, "received", None,
                      [from_addr |-> ResolveFrom(request),
                       subject |-> ResolveSubject(request),
                       message |-> "Email received and logged for processing"])
  /\ email_log' = EmailRecords(ResolveFrom(request), ResolveSubject(request),
                                ResolveBody(request))
  /\ UNCHANGED <<tasks, task_logs, sess, base, input, mailbox>>

\* ------------------------------------------------------- voice webhook
VapiTypes ==
  { "assistant-request", "function-call", "end-of-call-report",
    "status-update", "transcript", "" }

\* request.function: absent, without a name, or naming a function.
VapiFunctions == { None, "<no name>", "lookup_account" }

\* request.function.get("name", "unknown") if request.function else "unknown"
FunctionName(function) ==
  IF function = None \/ function = "<no name>" THEN "unknown" ELSE function

\* Variant: the status-update branch is missing, so that tag falls through to
\* the unhandled branch.
VapiBodyNoStatusUpdate(type, function) ==
  CASE type = "assistant-request" ->
         [assistant |-> [firstMessage |-> "Hello, how can I help you today?",
                         model |-> [provider |-> "anthropic",
                                    model |-> "claude-haiku-4-5-20251001"]]]
    [] type = "function-call" ->
         [result |-> <<"Function ", FunctionName(function),
                       " has been noted and is being processed.">>]
    [] type = "end-of-call-report" ->
         [status |-> "received", call_processed |-> TRUE]
    [] OTHER ->
         [status |-> "unhandled", type |-> type,
          message |-> <<"Message type ", type, " is not yet handled">>]

\* The dict vapi_stream returns for a request of this type.
VapiBody(type, function) ==
  CASE type = "assistant-request" ->
         [assistant |-> [firstMessage |-> "Hello, how can I help you today?",
                         model |-> [provider |-> "anthropic",
                                    model |-> "claude-haiku-4-5-20251001"]]]
    [] type = "function-call" ->
         [result |-> <<"Function ", FunctionName(function),
                       " has been noted and is being processed.">>]
    [] type = "end-of-call-report" ->
         [status |-> "received", call_processed |-> TRUE]
    [] type = "status-update" -> [status |-> "ok"]
    [] OTHER ->
         [status |-> "unhandled", type |-> type,
          message |-> <<"Message type ", type, " is not yet handled">>]

\* The "status" entry of that dict; for the two dicts that have none, the
\* name of their only key.
VapiStatus(type) ==
  CASE type = "assistant-request" -> "assistant"
    [] type = "function-call" -> "result"
    [] type = "end-of-call-report" -> "received"
    [] type = "status-update" -> "ok"
    [] OTHER -> "unhandled"

\* POST /api/voice/vapi/stream: every branch logs to the application log and
\* returns a dict; no table is written.
vapi_stream(type, function) ==
  /\ nreq < MaxRequests
  /\ nreq' = nreq + 1
  /\ resp' = Response("vapi_stream", 0, HTTP_200_OK, VapiStatus(type), None,
                      VapiBody(type, function))
  /\ UNCHANGED <<tasks, task_logs, sess, base, input, email_log, mailbox>>

\* ------------------------------------------------------------ Spec
\* A request-handling unit that is not handling a request.
Idle ==
  [pc |-> "idle", op |-> None, task |-> 0, loaded |-> None, attr |-> None,
   code |-> 0, typ |-> None, msg_id_list |-> <<>>, at |-> 0, results |-> <<>>,
   up |-> TRUE, untagged |-> FALSE]

\* The tables as the application finds them: any rows may already be stored,
\* each with one of the states of the enum; no request has been handled.
StoredRows ==
  { NoTask } \cup
  { [state |-> s, user_id |-> SeedUser, goal |-> SeedGoal] : s \in TaskState }

\* No request has been handled yet.
NothingHandled ==
  /\ task_logs = <<>>
  /\ resp = Response(None, 0, 0, None, None, NoBody)
  /\ nreq = 0
  /\ sess = [p \in 1 .. NProcs |-> Idle]
  /\ base = tasks
  /\ email_log = <<>>

Init ==
  /\ tasks \in [TaskIds -> StoredRows]
  /\ NothingHandled
  /\ input = None
  /\ mailbox = <<>>

Next ==
  \/ \E u \in Users \cup {UnknownUser}, g \in Goals : create_task(u, g)
  \/ \E t \in TaskIds : get_task(t)
  \/ \E t \in TaskIds : get_task_logs(t)
  \/ \E t \in TaskIds : execute_task(t)
  \/ \E t \in TaskIds : replan_task(t)
  \/ \E t \in TaskIds, e \in UnroutedEvents : no_route(t, e)
  \/ \E r \in EmailSamples : email_webhook(r)
  \/ \E ty \in VapiTypes, f \in VapiFunctions : vapi_stream(ty, f)

Spec == Init /\ [][Next]_vars

\* ------------------------------------------------------------ SpecConc
\* execute_task and replan_task statement by statement.  Each of the NProcs
\* request-handling units serves one request on its own session; the units
\* share only the tables.  The store gives read-committed isolation: a SELECT
\* sees the last committed row and takes no lock; the UPDATE is sent when
\* commit flushes the session.
Procs == 1 .. NProcs

InFlight(p) == sess[p].pc \in { "check", "write", "commit" }

\* task = db.query(Task).filter(Task.id == task_id).first()
\* if not task: raise HTTPException(404)
read_task(p, op, t) ==
  /\ sess[p].pc = "idle"
  /\ sess' = [sess EXCEPT ![p] =
       IF ~Exists(t)
         THEN [Idle EXCEPT !.pc = "done", !.op = op, !.task = t,
                           !.code = HTTP_404_NOT_FOUND]
         ELSE [Idle EXCEPT !.pc = IF op = "execute" THEN "check" ELSE "write",
                           !.op = op, !.task = t,
                           !.loaded = tasks[t].state, !.attr = tasks[t].state]]
  /\ UNCHANGED <<tasks, task_logs, resp, nreq, base, input, email_log, mailbox>>

\* execute_task only:
\* if task.state == TaskState.COMPLETED.value: raise HTTPException(400)
check_completed(p) ==
  /\ sess[p].pc = "check"
  /\ sess' = [sess EXCEPT ![p] =
       IF ExecuteRejects(sess[p].attr)
         THEN [@ EXCEPT !.pc = "done", !.code = HTTP_400_BAD_REQUEST]
         ELSE [@ EXCEPT !.pc = "write"]]
  /\ UNCHANGED <<tasks, task_logs, resp, nreq, base, input, email_log, mailbox>>

\* task.state = ...: the attribute of the loaded object, in memory only.
assign_state(p) ==
  /\ sess[p].pc = "write"
  /\ sess' = [sess EXCEPT ![p] =
       [@ EXCEPT !.pc = "commit",
                 !.attr = IF sess[p].op = "execute"
                            THEN ExecuteNext(sess[p].loaded)
                            ELSE ReplanNext(sess[p].loaded)]]
  /\ UNCHANGED <<tasks, task_logs, resp, nreq, base, input, email_log, mailbox>>

\* db.commit(), then the success response.
commit(p) ==
  /\ sess[p].pc = "commit"
  /\ tasks' = [tasks EXCEPT ![sess[p].task] =
       Flush(tasks[sess[p].task], sess[p].loaded, sess[p].attr)]
  /\ sess' = [sess EXCEPT ![p] = [@ EXCEPT !.pc = "done", !.code = HTTP_200_OK]]
  /\ UNCHANGED <<task_logs, resp, nreq, base, input, email_log, mailbox>>

NextConc ==
  \/ \E p \in Procs, op \in RoutedEvents, t \in TaskIds : read_task(p, op, t)
  \/ \E p \in Procs : check_completed(p)
  \/ \E p \in Procs : assign_state(p)
  \/ \E p \in Procs : commit(p)

\* The requests of SpecConc all contend for the one stored task, or miss.
InitConc ==
  /\ Init
  /\ \A t \in TaskIds : t # 1 => ~Exists(t)

SpecConc == InitConc /\ [][NextConc]_vars

\* =============================================================== claims
\* Vocabulary of the formulas below.
Stored(t) == tasks[t] # NoTask
Handled(op, t) == nreq' = nreq + 1 /\ resp'.op = op /\ resp'.task = t
LogsIn(table, t) == SelectSeq(table, LAMBDA l : l.task_id = t)
TaskEventOps == { "execute_task", "replan_task" }
LookupOps == { "get_task", "get_task_logs", "execute_task", "replan_task" }
InboundOps == { "email_webhook", "vapi_stream", "execute_task", "replan_task" }

\* C1 (as claimed): once a task is COMPLETED, FAILED or CANCELLED, no step of
\* the program changes its row.
C1_TerminalAbsorbing ==
  [][\A t \in TaskIds :
       (Stored(t) /\ tasks[t].state \in TerminalStates) => tasks'[t] = tasks[t]]_vars

\* C2 (as claimed): every execute or replan served for an existing task adds
\* exactly one task_logs row for that task.
C2_OneLogPerEvent ==
  [][\A t \in TaskIds :
       (Stored(t) /\ \E op \in TaskEventOps : Handled(op, t))
         => Len(LogsIn(task_logs', t)) = Len(LogsIn(task_logs, t)) + 1]_vars

\* C5: an execute served while the task is COMPLETED is answered 400 and
\* leaves the row as it was.
C5_ExecuteCompletedRejected ==
  [][\A t \in TaskIds :
       (Stored(t) /\ tasks[t].state = "COMPLETED" /\ Handled("execute_task", t))
         => (resp'.code = HTTP_400_BAD_REQUEST /\ tasks'[t] = tasks[t])]_vars

C5_Witness ==
  /\ resp.op = "execute_task"
  /\ resp.prev = "COMPLETED"
  /\ resp.code = HTTP_400_BAD_REQUEST
  /\ tasks[resp.task].state = "COMPLETED"

\* C6: an execute served while the task is in a non-terminal state is
\* answered 200 and leaves the task in CALL_IN_PROGRESS, also when it already
\* was in CALL_IN_PROGRESS.
C6_ExecuteAccepted ==
  [][\A t \in TaskIds :
       (Stored(t) /\ tasks[t].state \in NonTerminalStates /\ Handled("execute_task", t))
         => (resp'.code = HTTP_200_OK /\ tasks'[t].state = "CALL_IN_PROGRESS")]_vars

C6_Witness ==
  /\ resp.op = "execute_task"
  /\ resp.prev = "CALL_IN_PROGRESS"
  /\ resp.code = HTTP_200_OK
  /\ tasks[resp.task].state = "CALL_IN_PROGRESS"

\* C7: a replan served while the task is in a non-terminal state leaves the
\* task in INIT.
C7_ReplanResets ==
  [][\A t \in TaskIds :
       (Stored(t) /\ tasks[t].state \in NonTerminalStates /\ Handled("replan_task", t))
         => (resp'.code = HTTP_200_OK /\ tasks'[t].state = "INIT")]_vars

C7_Witness ==
  /\ resp.op = "replan_task"
  /\ resp.prev \in NonTerminalStates \ { "INIT" }
  /\ resp.code = HTTP_200_OK
  /\ tasks[resp.task].state = "INIT"

\* C8 (as claimed): a cancel event on a task in a non-terminal state leaves it
\* CANCELLED, and a fatal-error event leaves it FAILED.
C8_CancelAndFatalError ==
  [][\A t \in TaskIds :
       (Stored(t) /\ tasks[t].state \in NonTerminalStates)
         => /\ Handled("cancel", t) => tasks'[t].state = "CANCELLED"
            /\ Handled("fatal-error", t) => tasks'[t].state = "FAILED"]_vars

\* C9: get_task, get_task_logs, execute_task and replan_task for an id that
\* has no row answer 404 and leave both tables as they were.
C9_NotFound ==
  [][\A t \in TaskIds :
       (~Stored(t) /\ \E op \in LookupOps : Handled(op, t))
         => (resp'.code = HTTP_404_NOT_FOUND /\ tasks' = tasks /\ task_logs' = task_logs)]_vars

C9_Witness ==
  /\ resp.op \in LookupOps
  /\ resp.code = HTTP_404_NOT_FOUND
  /\ \E t \in TaskIds : resp.task = t /\ ~Stored(t)
  /\ tasks = base
  /\ task_logs = <<>>

\* C10 (as claimed): a handler that answers an inbound event with success has
\* stored a task_logs row for it.
C10_NoSilentDiscard ==
  [][(nreq' = nreq + 1 /\ resp'.op \in InboundOps /\ resp'.code = HTTP_200_OK)
       => Len(task_logs') > Len(task_logs)]_vars

\* ------------------------------------------------ claims under SpecConc
\* The orders in which the NProcs requests can be served one after another.
Orders == { f \in [Procs -> Procs] : \A a, b \in Procs : a # b => f[a] # f[b] }

\* The tasks table after the requests order[1..i] were served one at a time,
\* each handler running alone from its read to its commit.
RECURSIVE SerialTable(_, _, _)
SerialTable(table, order, i) ==
  IF i = 0 THEN table
  ELSE LET before == SerialTable(table, order, i - 1)
           p == order[i]
       IN  IF sess[p].pc = "idle" \/ before[sess[p].task] = NoTask THEN before
           ELSE [before EXCEPT ![sess[p].task] =
                   transition(before[sess[p].task], sess[p].op)]

\* The answer request order[i] gets in that serial run.
SerialCode(table, order, i) ==
  LET row == SerialTable(table, order, i - 1)[sess[order[i]].task]
  IN  IF row = NoTask THEN HTTP_404_NOT_FOUND
      ELSE IF sess[order[i]].op = "execute" /\ row.state = "COMPLETED"
             THEN HTTP_400_BAD_REQUEST
      ELSE HTTP_200_OK

Quiescent == \A p \in Procs : sess[p].pc \in { "idle", "done" }

\* C3: whenever no request is in flight, the tasks table and every answer
\* given are those of serving the same requests one after another in some
\* order: no committed update is lost.
C3_Serializable ==
  Quiescent =>
    \E order \in Orders :
      /\ SerialTable(base, order, NProcs) = tasks
      /\ \A i \in Procs :
           sess[order[i]].pc = "done"
             => SerialCode(base, order, i) = sess[order[i]].code

\* Every unit has served its request, all on the same stored task, and an
\* execute and a replan both read the task before either committed.
C3_Witness ==
  /\ \A p \in Procs : sess[p].pc = "done" /\ sess[p].task = 1
  /\ Stored(1)
  /\ \E p, q \in Procs :
       /\ sess[p].op = "execute" /\ sess[q].op = "replan"
       /\ sess[p].code = HTTP_200_OK /\ sess[q].code = HTTP_200_OK
       /\ sess[p].loaded = base[1].state /\ sess[q].loaded = base[1].state
       /\ base[1].state \notin { "INIT", "CALL_IN_PROGRESS" }

\* C4 (as claimed): at most one handler at a time is between its read of a
\* task and its commit, and a handler in that span holds the committed state.
C4_RowLockHeld ==
  /\ \A p, q \in Procs :
       (p # q /\ InFlight(p) /\ InFlight(q)) => sess[p].task # sess[q].task
  /\ \A p \in Procs :
       InFlight(p) => sess[p].loaded = tasks[sess[p].task].state

\* ------------------------------------------------------------------ C11
\* C11: every stored task has one of the nine states of TaskState and one
\* owning user, a row of the users table.
C11_TaskWellFormed ==
  \A t \in TaskIds :
    Stored(t) => (tasks[t].state \in TaskState /\ tasks[t].user_id \in Users)

\* A task created by create_task (only those are owned by "u2") has been
\* executed.
C11_Witness ==
  /\ resp.op = "execute_task"
  /\ resp.code = HTTP_200_OK
  /\ tasks[resp.task].user_id = "u2"
  /\ tasks[resp.task].state = "CALL_IN_PROGRESS"

\* ------------------------------------------------------------ SpecEmail
\* The JSON object posted to /api/email/webhook, as a function from the keys
\* a provider may send to their values.  Absent: the key is not in the
\* object.  Every key carries either the empty string or its own text, so
\* that the resolved value tells which key it came from; the body texts all
\* differ in length, so that the logged body_length tells it too.
Absent == "<absent>"

EmailKeys ==
  { "from", "from_", "sender", "From", "subject", "Subject", "text", "plain",
    "body", "body-plain", "body_plain" }

TextOf(key) ==
  CASE key = "from" -> "from@x.com"
    [] key = "from_" -> "from_@x.com"
    [] key = "sender" -> "sender@x.com"
    [] key = "From" -> "a@x.com"
    [] key = "subject" -> "lower subject"
    [] key = "Subject" -> "Upper Subject"
    [] key = "text" -> "text body"
    [] key = "plain" -> "hi"
    [] key = "body" -> "the body"
    [] key = "body-plain" -> "body-plain body"
    [] OTHER -> "a body_plain body"

EmailPayloads ==
  { p \in [EmailKeys -> { Absent, "", "text" }] : TRUE }

\* The value a payload gives for a key: Absent, "" or the key's text.
Given(payload, key) ==
  IF payload[key] = "text" THEN TextOf(key) ELSE payload[key]

\* A field without alias: populated from the key of its own name, default None.
ByName(payload, key) ==
  IF Given(payload, key) = Absent THEN None ELSE Given(payload, key)

\* A field with an alias under populate_by_name=True: the alias key is looked
\* up first, the field's own name only when the alias key is absent.
ByAlias(payload, alias, name) ==
  IF Given(payload, alias) # Absent THEN Given(payload, alias)
  ELSE ByName(payload, name)

\* EmailWebhookRequest built from the posted object: from_ has alias "from",
\* body has alias "body-plain", body_plain has none.
ParseEmail(payload) ==
  [from_ |-> ByAlias(payload, "from", "from_"),
   sender |-> ByName(payload, "sender"),
   From |-> ByName(payload, "From"),
   subject |-> ByName(payload, "subject"),
   Subject |-> ByName(payload, "Subject"),
   text |-> ByName(payload, "text"),
   plain |-> ByName(payload, "plain"),
   body |-> ByAlias(payload, "body-plain", "body"),
   body_plain |-> ByName(payload, "body_plain")]

\* POST /api/email/webhook with the object in `input`.
email_request == email_webhook(ParseEmail(input))

InitEmail ==
  /\ tasks = [t \in TaskIds |-> NoTask]
  /\ NothingHandled
  /\ input \in EmailPayloads
  /\ mailbox = <<>>

NextEmail == email_request

SpecEmail == InitEmail /\ [][NextEmail]_vars

\* ------------------------------------------------------------------ C12
\* The first of `keys` the payload gives a non-empty value for, else `default`.
RECURSIVE FirstNonEmpty(_, _, _)
FirstNonEmpty(payload, keys, default) ==
  IF keys = <<>> THEN default
  ELSE IF Given(payload, Head(keys)) \notin { Absent, "" }
         THEN Given(payload, Head(keys))
  ELSE FirstNonEmpty(payload, Tail(keys), default)

\* The payload uses only the keys the claim names.
OnlyClaimedKeys == input["from_"] = Absent /\ input["body_plain"] = Absent

\* C12 (as claimed): once the webhook has handled a payload, the sender is the
\* first non-empty of from, sender, From, else "unknown"; the subject the
\* first non-empty of subject, Subject, else "(no subject)"; the body the
\* first non-empty of text, plain, body, body-plain, else empty.  The body
\* the handler resolved shows in the body_length it logs.
C12_EmailPriority ==
  (resp.op = "email_webhook" /\ OnlyClaimedKeys) =>
    /\ resp.body.from_addr = FirstNonEmpty(input, <<"from", "sender", "From">>, "unknown")
    /\ resp.body.subject = FirstNonEmpty(input, <<"subject", "Subject">>, "(no subject)")
    /\ email_log[1].body_length =
         Len(FirstNonEmpty(input, <<"text", "plain", "body", "body-plain">>, ""))

\* The part of C12 that holds of the code: sender and subject as claimed, and
\* the body as claimed whenever the payload does not give both body and
\* body-plain.
C12_HoldsPart ==
  (resp.op = "email_webhook" /\ OnlyClaimedKeys) =>
    /\ resp.body.from_addr = FirstNonEmpty(input, <<"from", "sender", "From">>, "unknown")
    /\ resp.body.subject = FirstNonEmpty(input, <<"subject", "Subject">>, "(no subject)")
    /\ (input["body"] = Absent \/ input["body-plain"] = Absent) =>
         email_log[1].body_length =
           Len(FirstNonEmpty(input, <<"text", "plain", "body", "body-plain">>, ""))

\* ------------------------------------------------------------ SpecVoice
\* Tags a Vapi server message can carry: the four the handler knows, other
\* message types of the provider, and near misses of the known tags.
VapiTags ==
  VapiTypes \cup
  { "tool-calls", "transfer-destination-request", "conversation-update",
    "hang", "speech-update", "user-interrupted", "model-output",
    "Assistant-Request", "assistant_request", "function-call ", "status" }

VapiRequests == [type : VapiTags, function : VapiFunctions]

\* POST /api/voice/vapi/stream with the message in `input`.
vapi_request == vapi_stream(input.type, input.function)

InitVoice ==
  /\ tasks = [t \in TaskIds |-> NoTask]
  /\ NothingHandled
  /\ input \in VapiRequests
  /\ mailbox = <<>>

NextVoice == vapi_request

SpecVoice == InitVoice /\ [][NextVoice]_vars

\* ------------------------------------------------------------------ C13
\* Which of the five outcomes a returned dict is, by the keys it has.
OutcomeOf(body) ==
  CASE DOMAIN body = { "assistant" } -> "assistant"
    [] DOMAIN body = { "result" } -> "function-result"
    [] DOMAIN body = { "status", "call_processed" } -> "call-ended"
    [] DOMAIN body = { "status" } -> "status"
    [] DOMAIN body = { "status", "type", "message" } -> "unhandled"
    [] OTHER -> "none"

\* The outcome the claim gives each tag.
ClaimedOutcome(type) ==
  CASE type = "assistant-request" -> "assistant"
    [] type = "function-call" -> "function-result"
    [] type = "end-of-call-report" -> "call-ended"
    [] type = "status-update" -> "status"
    [] OTHER -> "unhandled"

\* C13: every message is answered without error by exactly the outcome of its
\* tag: the four known tags each by their own, every other tag by the
\* unhandled outcome, which carries the tag as it was sent.
C13_VoiceTotalMapping ==
  resp.op = "vapi_stream" =>
    /\ resp.code = HTTP_200_OK
    /\ OutcomeOf(resp.body) = ClaimedOutcome(input.type)
    /\ OutcomeOf(resp.body) = "unhandled" =>
         (resp.body.status = "unhandled" /\ resp.body.type = input.type)

\* A message with a tag the handler does not know has been answered.
C13_Witness ==
  /\ resp.op = "vapi_stream"
  /\ input.type = "conversation-update"
  /\ resp.body.status = "unhandled"
  /\ resp.body.type = "conversation-update"

\* ------------------------------------------------------------ inbox poll
\* A message of the remote INBOX, at its sequence number in `mailbox`:
\*   unseen  - it does not carry the \Seen flag
\*   health  - "ok", "fetch_fails" (the server answers the FETCH of this
\*             message with NO or without data), "parse_fails" (the data
\*             it returns cannot be turned into an entry) or "raw_header"
\*             (its Subject header holds raw 8-bit bytes)
\*   From, Subject, Date - what msg.get returns for the header: None where
\*             the header is missing, HeaderObject for a header with raw
\*             8-bit bytes, which message_from_bytes parses without error
\*             into an email.header.Header instead of a str
HeaderObject == "<email.header.Header>"

Message(unseen, health) ==
  [unseen |-> unseen, health |-> health, From |-> "a@x.com",
   Subject |-> IF health = "raw_header" THEN HeaderObject ELSE None,
   Date |-> "Fri, 30 Oct 2026"]

\* The data of an OK answer to SEARCH UNSEEN: the sequence numbers of the
\* unseen messages, ascending.
RECURSIVE UnseenIds(_, _)
UnseenIds(mb, n) ==
  IF n = 0 THEN <<>>
  ELSE IF mb[n].unseen THEN Append(UnseenIds(mb, n - 1), n)
  ELSE UnseenIds(mb, n - 1)

\* A word of the answer that is no number, such as "try".
NoNumber == 0

\* How the server answers connect, login and select:
\*   "ok"          - the INBOX is selected
\*   "imap_error"  - login is refused or a command is answered BAD: imaplib
\*                   raises IMAP4.error
\*   "os_error"    - the connection cannot be made: OSError
ServerAnswers == { "ok", "imap_error", "os_error" }

\* How the server answers SEARCH UNSEEN:
\*   "ok"          - SEARCH is answered OK
\*   "no_words"    - SEARCH is answered "NO search failed try later"
\*   "no_numbers"  - SEARCH is answered "NO try again in 2 or 3 minutes"
SearchAnswers == { "ok", "no_words", "no_numbers" }

\* typ, of `typ, data = imap.search(None, "UNSEEN")`: imaplib returns a NO
\* answer to the caller, it raises only on BAD.
SearchTyp(server) == IF server = "ok" THEN "OK" ELSE "NO"

\* data[0].split(): for an OK answer the unseen ids, for a NO answer the
\* words of the server's text.
SearchWords(mb, server) ==
  CASE server = "ok" -> UnseenIds(mb, Len(mb))
    [] server = "no_words" -> <<NoNumber, NoNumber, NoNumber, NoNumber>>
    [] OTHER -> <<NoNumber, NoNumber, NoNumber, 2, NoNumber, 3, NoNumber>>

\* ids[-limit:]
LastN(ids, limit) ==
  IF Len(ids) <= limit THEN ids ELSE SubSeq(ids, Len(ids) - limit + 1, Len(ids))

\* msg.get(header, default)
HeaderOr(value, default) == IF value = None THEN default ELSE value

\* The dict appended for a message that was fetched and parsed.
Entry(mb, id) ==
  [id |-> id, from |-> HeaderOr(mb[id].From, "unknown"),
   subject |-> HeaderOr(mb[id].Subject, "(no subject)"),
   date |-> HeaderOr(mb[id].Date, "unknown")]

\* The server has a message to return for FETCH id: id is a sequence number
\* of the mailbox and the message is not one the server fails on.  For any
\* other id the FETCH is answered BAD or NO, or without data.
Fetchable(mb, id) == id \in 1 .. Len(mb) /\ mb[id].health # "fetch_fails"

\* The data of the message itself can be turned into an entry.
WellFormed(mb, id) == mb[id].health # "parse_fails"

\* What imap.fetch returns first in msg_data.  imaplib keeps every untagged
\* FETCH answer it has received since the last fetch, so when another
\* connection has changed a flag the server's flag update for that message,
\* a bytes string, can stand before the data of the message asked for:
\*   "first" - a waiting flag update stands first
\*   "none"  - the data of the message stands first (no update has been
\*             sent yet, or it came after the data)
Updates == { "first", "none" }

\* message_from_bytes(msg_data[0][1]) and the three msg.get succeed:
\* msg_data[0] is the (envelope, data) pair of the message, not a flag
\* update, and the data is well-formed.
Parses(mb, id, update_first) == ~update_first /\ WellFormed(mb, id)

\* The response model can serialize the entry: every value is a str.
Serializable(entry) ==
  entry.from # HeaderObject /\ entry.subject # HeaderObject /\ entry.date # HeaderObject

\* How the connection behaves during one FETCH: "up"; "lost", it breaks
\* before the command reaches the server; "lost_after", it breaks after the
\* server has carried the FETCH out and before the answer arrives.
Links == { "up", "lost", "lost_after" }

\* The INBOX after the server has answered FETCH id (RFC822) on a mailbox
\* selected read-write (imap.select("INBOX")): a fetch of RFC822 without PEEK
\* makes the server set \Seen on the message it returns.
AfterFetch(mb, id) ==
  IF Fetchable(mb, id) THEN [mb EXCEPT ![id].unseen = FALSE] ELSE mb

\* GET /api/email/inbox up to the selected mailbox: the credentials check,
\* then in the executor thread connect, login and select("INBOX").
get_inbox(p, configured, server) ==
  /\ sess[p].pc = "idle"
  /\ IF ~configured
       THEN \* settings.IMAP_USERNAME or settings.IMAP_PASSWORD is empty
            /\ nreq < MaxRequests
            /\ nreq' = nreq + 1
            /\ resp' = Response("get_inbox", 0, HTTP_200_OK, "not_configured", None,
                                [count |-> 0, emails |-> <<>>])
            /\ sess' = [sess EXCEPT ![p] =
                 [Idle EXCEPT !.pc = "done", !.op = "get_inbox", !.code = HTTP_200_OK]]
       ELSE IF server = "imap_error"
       THEN /\ nreq < MaxRequests
            /\ nreq' = nreq + 1
            /\ resp' = Response("get_inbox", 0, HTTP_503_UNAVAILABLE, "error", None, NoBody)
            /\ sess' = [sess EXCEPT ![p] =
                 [Idle EXCEPT !.pc = "done", !.op = "get_inbox",
                              !.code = HTTP_503_UNAVAILABLE]]
       ELSE IF server = "os_error"
       THEN /\ nreq < MaxRequests
            /\ nreq' = nreq + 1
            /\ resp' = Response("get_inbox", 0, HTTP_500_INTERNAL, "error", None, NoBody)
            /\ sess' = [sess EXCEPT ![p] =
                 [Idle EXCEPT !.pc = "done", !.op = "get_inbox",
                              !.code = HTTP_500_INTERNAL]]
       ELSE /\ sess' = [sess EXCEPT ![p] =
                 [Idle EXCEPT !.pc = "search", !.op = "get_inbox"]]
            /\ UNCHANGED <<resp, nreq>>
  /\ UNCHANGED <<tasks, task_logs, base, input, email_log, mailbox>>

\* `_, msg_ids = imap.search(None, "UNSEEN")` and the cut to the last
\* PollLimit ids.  The status of the answer is discarded, so the words of a
\* NO answer are taken for ids.
search_unseen(p, answer) ==
  /\ sess[p].pc = "search"
  /\ LET list == LastN(SearchWords(mailbox, answer), PollLimit)
     IN  sess' = [sess EXCEPT ![p] =
           [@ EXCEPT !.pc = IF list = <<>> THEN "logout" ELSE "fetch",
                     !.typ = SearchTyp(answer), !.msg_id_list = list, !.at = 1]]
  /\ UNCHANGED <<tasks, task_logs, resp, nreq, base, input, email_log, mailbox>>

\* One pass of the loop over msg_id_list: imap.fetch(msg_id, "(RFC822)"),
\* parse, append.  Any exception is logged and the loop continues with the
\* next message.  Once the connection is broken imaplib raises IMAP4.abort
\* on this and every later command.  A fetch that sets \Seen makes the
\* server owe a flag update to every other connection that has the mailbox
\* selected and has fetches to come.
fetch_message(p, link, update) ==
  /\ sess[p].pc = "fetch"
  /\ LET id == sess[p].msg_id_list[sess[p].at]
         sent == sess[p].up /\ link # "lost"
         up == sess[p].up /\ link = "up"
         got == up /\ Fetchable(mailbox, id)
         update_first == sess[p].untagged /\ update = "first"
         parsed == got /\ Parses(mailbox, id, update_first)
         marks == sent /\ Fetchable(mailbox, id) /\ mailbox[id].unseen
         at == sess[p].at + 1
     IN  /\ mailbox' = IF sent THEN AfterFetch(mailbox, id) ELSE mailbox
         /\ sess' = [q \in DOMAIN sess |->
              IF q = p
                THEN [sess[p] EXCEPT
                        !.up = up,
                        !.untagged = IF got /\ update_first THEN FALSE ELSE @,
                        !.results = IF parsed THEN Append(@, Entry(mailbox, id)) ELSE @,
                        !.at = at,
                        !.pc = IF at > Len(sess[p].msg_id_list) THEN "logout" ELSE "fetch"]
              ELSE IF marks /\ sess[q].pc \in { "search", "fetch" }
                THEN [sess[q] EXCEPT !.untagged = TRUE]
              ELSE sess[q]]
  /\ UNCHANGED <<tasks, task_logs, resp, nreq, base, input, email_log>>

\* `return results` leaves the `with` block, whose exit sends LOGOUT.  An
\* IMAP4.abort raised there replaces the return and get_inbox answers 503;
\* an OSError is swallowed by the exit and the results are returned.
\* get_inbox then returns InboxResponse(status="ok", ...); when an entry
\* cannot be serialized the framework fails after the handler has returned,
\* outside its try/except, and the request is answered 500.
\* logout: "ok" (answered, or OSError) or "abort".
finish_poll(p, logout) ==
  /\ sess[p].pc = "logout"
  /\ nreq < MaxRequests
  /\ nreq' = nreq + 1
  /\ IF logout = "abort"
       THEN /\ resp' = Response("get_inbox", 0, HTTP_503_UNAVAILABLE, "error", None, NoBody)
            /\ sess' = [sess EXCEPT ![p] =
                 [Idle EXCEPT !.pc = "done", !.op = "get_inbox", !.up = FALSE,
                              !.code = HTTP_503_UNAVAILABLE]]
       ELSE IF \E k \in 1 .. Len(sess[p].results) : ~Serializable(sess[p].results[k])
       THEN /\ resp' = Response("get_inbox", 0, HTTP_500_INTERNAL, "error", None,
                                <<"Internal Server Error">>)
            /\ sess' = [sess EXCEPT ![p] =
                 [Idle EXCEPT !.pc = "done", !.op = "get_inbox", !.up = sess[p].up,
                              !.code = HTTP_500_INTERNAL]]
       ELSE /\ resp' = Response("get_inbox", 0, HTTP_200_OK, "ok", None,
                                [count |-> Len(sess[p].results),
                                 emails |-> sess[p].results])
            /\ sess' = [sess EXCEPT ![p] =
                 [Idle EXCEPT !.pc = "done", !.op = "get_inbox", !.up = sess[p].up,
                              !.code = HTTP_200_OK]]
  /\ UNCHANGED <<tasks, task_logs, base, input, email_log, mailbox>>

\* ------------------------------------------------------------ SpecInbox
\* Mailboxes of n messages, all unseen and sound but for at most one message
\* already seen (at `seen`, 0: none) and at most one that fails (at `bad`).
MakeMailbox(n, seen, bad, how) ==
  [i \in 1 .. n |-> Message(i # seen, IF i = bad THEN how ELSE "ok")]

\* A mailbox with more than PollLimit unseen messages.  The first message is
\* seen, the second is sound and unseen and older than the PollLimit most
\* recent.  Of those the server returns the last MaxLive, the last but one
\* of them with data that cannot be parsed; it fails on the FETCH of the
\* others.
BigMailbox ==
  [i \in 1 .. MaxMail |->
     Message(i # 1,
             IF i = MaxMail - 1 THEN "parse_fails"
             ELSE IF i > 2 /\ i <= MaxMail - MaxLive THEN "fetch_fails"
             ELSE "ok")]

\* Mailboxes of up to SmallMail messages with every placement of the seen
\* and the failing message, and the mailbox with more than PollLimit unseen
\* messages.
Mailboxes ==
  { MakeMailbox(n, s, b, h) :
      n \in 0 .. SmallMail, s \in 0 .. SmallMail, b \in 0 .. SmallMail,
      h \in { "fetch_fails", "parse_fails", "raw_header" } }
  \cup { BigMailbox }

\* The settings the polls of one behaviour run with.
InboxSetups == [configured : BOOLEAN]

\* Two requests: each poll runs in its own executor thread on its own
\* connection, and the two may overlap in every way on every mailbox.
InboxProcs == { p \in Procs : p <= 2 }

InitInbox ==
  /\ tasks = [t \in TaskIds |-> NoTask]
  /\ NothingHandled
  /\ input \in InboxSetups
  /\ mailbox \in Mailboxes

NextInbox ==
  \/ \E p \in InboxProcs, a \in ServerAnswers :
       get_inbox(p, input.configured, a)
  \/ \E p \in InboxProcs, a \in SearchAnswers : search_unseen(p, a)
  \/ \E p \in InboxProcs, l \in Links, u \in Updates : fetch_message(p, l, u)
  \/ \E p \in InboxProcs, l \in { "ok", "abort" } : finish_poll(p, l)

SpecInbox == InitInbox /\ [][NextInbox]_vars

\* ------------------------------------------------------------ C14, C15
\* The unseen messages of a mailbox, and the PollLimit most recent of them.
UnseenSet(mb) == { i \in 1 .. Len(mb) : mb[i].unseen }
RecentUnseen(mb) ==
  { i \in UnseenSet(mb) :
      Cardinality({ j \in UnseenSet(mb) : j > i }) < PollLimit }

\* The ids in a sequence of ids, and the messages of mailbox mb among them.
IdSet(ids) == { ids[k] : k \in 1 .. Len(ids) }
Considered(ids, mb) == { i \in IdSet(ids) : i \in 1 .. Len(mb) }

\* Unit p passes from the SEARCH to the loop, and unit p answers its request.
Searches(p) == sess[p].pc = "search" /\ sess'[p].pc \in { "fetch", "logout" }
Answers(p) == sess[p].pc = "logout" /\ sess'[p].pc = "done"

\* The messages of `list` that the server returns and whose data is
\* well-formed: those whose fetch and parse succeed.
SoundOf(list) ==
  { i \in Considered(list, mailbox) : Fetchable(mailbox, i) /\ WellFormed(mailbox, i) }

\* The ids of the entries, and: the entries are in mailbox order, one each.
IdsOf(emails) == { emails[k].id : k \in 1 .. Len(emails) }
InOrder(emails) ==
  \A k, l \in 1 .. Len(emails) : k < l => emails[k].id < emails[l].id

\* The entries are those of the messages of `list` whose fetch and parse
\* succeed, one each, in mailbox order.
EntriesOfSound(emails, list) ==
  IdsOf(emails) = SoundOf(list) /\ InOrder(emails)

\* C14 (as claimed): the messages a poll goes through after its SEARCH are
\* exactly the PollLimit most recent unseen messages of the mailbox at that
\* moment, and as long as its connection holds it succeeds whatever
\* the single messages do and returns exactly one entry for each of those
\* messages whose fetch and parse succeed, in mailbox order.
C14_PollIsolated ==
  [][\A p \in InboxProcs :
       /\ Searches(p) =>
            Considered(sess'[p].msg_id_list, mailbox) = RecentUnseen(mailbox)
       /\ (Answers(p) /\ sess'[p].up) =>
            /\ resp'.code = HTTP_200_OK
            /\ resp'.status = "ok"
            /\ resp'.body.count = Len(resp'.body.emails)
            /\ EntriesOfSound(resp'.body.emails, sess[p].msg_id_list)]_vars

\* The part of C14 that holds of the code.  A poll whose SEARCH the server
\* answers OK goes through the PollLimit most recent unseen messages.  A poll
\* whose connection holds and whose entries can all be serialized succeeds
\* and returns entries of sound messages of its list only, one each, in
\* mailbox order; it returns all of them when no other poll has started.
C14_HoldsPart ==
  [][\A p \in InboxProcs :
       /\ (Searches(p) /\ sess'[p].typ = "OK")
            => Considered(sess'[p].msg_id_list, mailbox) = RecentUnseen(mailbox)
       /\ (/\ Answers(p) /\ sess'[p].up
           /\ \A k \in 1 .. Len(sess[p].results) : Serializable(sess[p].results[k]))
            =>
            /\ resp'.code = HTTP_200_OK
            /\ resp'.status = "ok"
            /\ resp'.body.count = Len(resp'.body.emails)
            /\ IdsOf(resp'.body.emails) \subseteq SoundOf(sess[p].msg_id_list)
            /\ InOrder(resp'.body.emails)
            /\ (\A q \in InboxProcs \ {p} : sess[q].pc = "idle")
                 => EntriesOfSound(resp'.body.emails, sess[p].msg_id_list)]_vars

\* Two overlapping polls went through the same two sound messages with
\* their connections up, and one of them is about to answer without a
\* message it fetched: the other poll's flag update stood first in the data
\* of that fetch.
C14_UpdateDropsMessage ==
  /\ Len(mailbox) = 2
  /\ \A i \in 1 .. 2 : mailbox[i].health = "ok" /\ ~mailbox[i].unseen
  /\ \A p \in InboxProcs :
       sess[p].pc = "logout" /\ sess[p].up /\ sess[p].msg_id_list = <<1, 2>>
  /\ Len(sess[1].results) = 2
  /\ Len(sess[2].results) = 1

\* A sound message among others has failed the whole poll: both messages
\* were fetched and marked seen, and the request was answered 500.
C14_WholePollFails ==
  /\ resp.op = "get_inbox"
  /\ resp.code = HTTP_500_INTERNAL
  /\ resp.body = <<"Internal Server Error">>
  /\ nreq = 1
  /\ Len(mailbox) = 2
  /\ \A i \in 1 .. 2 : ~mailbox[i].unseen
  /\ \E i \in 1 .. 2 : mailbox[i].health = "ok"

\* A poll of a mailbox with more than PollLimit unseen messages has returned
\* every message the server returns among the PollLimit most recent but one:
\* that one failed, and messages before and after it were returned.  The
\* sound unseen message older than those was left out and is still unseen.
C14_Witness ==
  /\ resp.op = "get_inbox"
  /\ resp.status = "ok"
  /\ resp.body.count = MaxLive - 1
  /\ Len(mailbox) > PollLimit
  /\ \E i \in 1 .. Len(mailbox) :
       /\ mailbox[i].unseen /\ mailbox[i].health = "ok"
       /\ \A k \in 1 .. Len(resp.body.emails) : i < resp.body.emails[k].id
  /\ \E i \in 1 .. Len(mailbox) :
       /\ mailbox[i].health # "ok"
       /\ \E k, l \in 1 .. Len(resp.body.emails) :
            resp.body.emails[k].id < i /\ i < resp.body.emails[l].id

\* Two polls overlapped on the mailbox with more than PollLimit unseen
\* messages: both went through the same PollLimit messages with their
\* connections up, and one is about to answer without a sound message that
\* the other returns.
C14_OverlapBeyondLimit ==
  /\ Len(mailbox) > PollLimit
  /\ \A p \in InboxProcs : sess[p].pc = "logout" /\ sess[p].up
  /\ Len(sess[1].msg_id_list) = PollLimit
  /\ sess[1].msg_id_list = sess[2].msg_id_list
  /\ Len(sess[1].results) = MaxLive - 1
  /\ Len(sess[2].results) = MaxLive - 2

\* Two overlapping polls are both about to return the same unread messages.
SameMessagesTwice ==
  /\ \A p \in InboxProcs : sess[p].pc = "logout"
  /\ sess[1].results = sess[2].results
  /\ Len(sess[1].results) = 2

\* C15 (as claimed): no step of a poll changes the mailbox: the messages and
\* every message's unread flag stay as they were.
C15_MailboxUntouched ==
  [][mailbox' = mailbox]_vars

\* ------------------------------------------------------------ SpecFresh
\* A fresh installation: init_db has created empty tables.  The operations
\* that write or could write a task then run in any order and interleaving:
\* create_task and the two webhooks as whole handlers, execute_task,
\* replan_task and the inbox poll step by step on two concurrent
\* request-handling units.
FreshMailbox == MakeMailbox(2, 0, 2, "parse_fails")

InitFresh ==
  /\ tasks = [t \in TaskIds |-> NoTask]
  /\ NothingHandled
  /\ input = None
  /\ mailbox = FreshMailbox

\* Two units are enough for every interleaving of two handlers.
FreshProcs == { p \in Procs : p <= 2 }

\* The requests sent: a create by a known and by an unknown user, with a
\* goal the schema admits and one it refuses; an email without fields; a
\* voice message with a known and one with an unknown tag.
FreshUsers == { SeedUser, UnknownUser }
FreshGoals == { Repeat("g", GoalMinLength), Repeat("g", GoalMaxLength + 1) }
FreshVapiTypes == { "function-call", "" }

NextFresh ==
  \/ \E u \in FreshUsers, g \in FreshGoals : create_task(u, g)
  \/ email_webhook(EmptyEmail)
  \/ \E ty \in FreshVapiTypes : vapi_stream(ty, None)
  \/ \E p \in FreshProcs, op \in RoutedEvents, t \in TaskIds : read_task(p, op, t)
  \/ \E p \in FreshProcs : check_completed(p)
  \/ \E p \in FreshProcs : assign_state(p)
  \/ \E p \in FreshProcs : commit(p)
  \/ \E p \in FreshProcs, c \in BOOLEAN, a \in ServerAnswers : get_inbox(p, c, a)
  \/ \E p \in FreshProcs, a \in SearchAnswers : search_unseen(p, a)
  \/ \E p \in FreshProcs, l \in Links, u \in Updates : fetch_message(p, l, u)
  \/ \E p \in FreshProcs, l \in { "ok", "abort" } : finish_poll(p, l)

SpecFresh == InitFresh /\ [][NextFresh]_vars

\* ------------------------------------------------------------------ C16
\* C16: from empty tables every stored task is in INIT or CALL_IN_PROGRESS,
\* and no execute has been answered with the 'already completed' rejection.
C16_OnlyInitOrInProgress ==
  /\ \A t \in TaskIds :
       Stored(t) => tasks[t].state \in { "INIT", "CALL_IN_PROGRESS" }
  /\ resp.code # HTTP_400_BAD_REQUEST
  /\ \A p \in Procs : sess[p].code # HTTP_400_BAD_REQUEST

\* A task created by create_task has been executed and replanned by two
\* concurrent units and is in CALL_IN_PROGRESS.
C16_Witness ==
  \E t \in TaskIds, p, q \in Procs :
    /\ Stored(t) /\ tasks[t].state = "CALL_IN_PROGRESS"
    /\ resp.op = "create_task" /\ resp.code = HTTP_200_OK
    /\ sess[p].pc = "done" /\ sess[p].op = "execute" /\ sess[p].task = t
    /\ sess[p].code = HTTP_200_OK
    /\ sess[q].pc = "done" /\ sess[q].op = "replan" /\ sess[q].task = t
    /\ sess[q].code = HTTP_200_OK

====
